---------------------------- MODULE Spec2Model ----------------------------
(***************************************************************************)
(* Model of webrtc-sys/src/frame_cryptor.cpp: the binding layer between    *)
(* the foreign-function boundary and webrtc::FrameCryptorTransformer.      *)
(*                                                                         *)
(* One FrameCryptor, the transformer it creates, one RtpSender and one     *)
(* RtpReceiver (the two pipeline slots), application threads calling the   *)
(* cryptor's methods, and the signaling thread on which the transformer    *)
(* runs the observer callbacks.                                            *)
(***************************************************************************)
EXTENDS Integers, Sequences, FiniteSets, TLC

VARIABLES
    opts,       \* the KeyProviderOptions handed to new_key_provider
    kp,         \* the KeyProvider: whether built, and the options of its impl_
    life,       \* "unborn" | "alive" | "destroying" | "destroyed"
    fc,         \* the FrameCryptor's fields
    mutex_,     \* FrameCryptor::mutex_: "free" or the thread holding it
    tr,         \* the webrtc::FrameCryptorTransformer created by the cryptor
    pipe,       \* the frame transformer slot of the sender and of the receiver,
                \* and the number of transformers constructed
    th,         \* per application thread: position in the method it runs
    queue,      \* callbacks the transformer posted to the signaling thread
    hist        \* history: what callers passed and what observers received

vars == <<opts, kp, life, fc, mutex_, tr, pipe, th, queue, hist>>

---------------------------------------------------------------------------
(* Bounds of the model *)

\* method calls made on the cryptor in one behaviour
MaxCalls == 3
\* state changes the transformer reports in one behaviour
MaxEmits == 2
\* webrtc::FrameCryptionState values 0..MaxStateValue are reported
MaxStateValue == 2
\* longest ratchet_salt
MaxSaltLen == 2

Threads == {"app1", "app2"}

\* a null scoped_refptr; objects are numbered from 1
nullptr == 0

Int32Min == -2147483647 - 1
Int32Max == 2147483647

\* arguments of set_key_index
KeyIndexValues == {Int32Min, -1, 3, Int32Max}

ParticipantIds == {"alice", "bob"}
TrackKinds == {"audio", "video"}

\* livekit::Algorithm as it crosses the boundary; "other" is any value that is
\* none of the four enumerators
AlgorithmInputs == {"AesGcm", "AesCbc", "Sm4Gcm", "Sm4Cbc", "other"}

Bytes == {0, 255}
SaltsUpTo(n) == UNION {[1..k -> Bytes] : k \in 0..n}

KeyProviderOptionsInputs ==
    [shared_key : BOOLEAN,
     ratchet_salt : SaltsUpTo(MaxSaltLen),
     ratchet_window_size : {Int32Min, 0, 16},
     failure_tolerance : {-1, 0, Int32Max}]

NativeStates == {[enum |-> "webrtc::FrameCryptionState", value |-> v] : v \in 0..MaxStateValue}

---------------------------------------------------------------------------
(* Pure functions *)

\* variant: the AesCbc case lost
AlgorithmToFrameCryptorAlgorithm_AllGcm(algorithm) == "kAesGcm"

\* lines 31-47
AlgorithmToFrameCryptorAlgorithm(algorithm) ==
    CASE algorithm = "AesGcm" -> "kAesGcm"
      [] algorithm = "AesCbc" -> "kAesCbc"
      [] algorithm = "Sm4Gcm" -> "kAesGcm"
      [] algorithm = "Sm4Cbc" -> "kAesGcm"
      [] OTHER -> "kAesGcm"

\* std::copy(begin, end, back_inserter(out)): lines 53-55
RECURSIVE CopyBackInsert(_, _, _)
CopyBackInsert(src, i, out) ==
    IF i > Len(src) THEN out
    ELSE CopyBackInsert(src, i + 1, Append(out, src[i]))

\* variant: the copy starts one element late
KeyProvider_SkipFirstSaltByte(options) ==
    LET ratchet_salt == CopyBackInsert(options.ratchet_salt, 2, <<>>)
    IN [shared_key |-> options.shared_key,
        ratchet_salt |-> ratchet_salt,
        ratchet_window_size |-> options.ratchet_window_size,
        failure_tolerance |-> options.failure_tolerance]

\* lines 49-63: the webrtc::KeyProviderOptions given to DefaultKeyProviderImpl
KeyProvider(options) ==
    LET ratchet_salt == CopyBackInsert(options.ratchet_salt, 1, <<>>)
    IN [shared_key |-> options.shared_key,
        ratchet_salt |-> ratchet_salt,
        ratchet_window_size |-> options.ratchet_window_size,
        failure_tolerance |-> options.failure_tolerance]

\* static_cast<FrameCryptionState>(state), line 140: the enumeration changes,
\* the underlying value is kept
StaticCastState(state) ==
    [enum |-> "livekit::FrameCryptionState", value |-> state.value]

\* variant: the state is not passed on
OnFrameCryptionStateChanged_DropState(observer, participant_id, state) ==
    << [observer |-> observer,
        on_frame_cryption_state_change |->
            [participant_id |-> participant_id,
             state |-> [enum |-> "livekit::FrameCryptionState", value |-> 0]]] >>

\* lines 136-141: the calls made on the RtcFrameCryptorObserverWrapper boxed
\* in the NativeFrameCryptorObserver `observer`
OnFrameCryptionStateChanged(observer, participant_id, state) ==
    << [observer |-> observer,
        on_frame_cryption_state_change |->
            [participant_id |-> participant_id,
             state |-> StaticCastState(state)]] >>

---------------------------------------------------------------------------
(* webrtc::FrameCryptorTransformer, the wrapped library object *)

NoOptions ==
    [shared_key |-> FALSE, ratchet_salt |-> <<>>,
     ratchet_window_size |-> 0, failure_tolerance |-> 0]

NoTransformer ==
    [exists |-> FALSE, participant_id |-> "", mediaType |-> "", algorithm |-> "",
     key_provider |-> NoOptions, enabled |-> FALSE, key_index |-> 0,
     observer |-> nullptr]

\* new webrtc::FrameCryptorTransformer(...): lines 79-82 and 101-104.  The
\* library's default for enabled is not fixed by this file.
NewTransformer(participant_id, mediaType, algorithm, key_provider, enabled0) ==
    [exists |-> TRUE, participant_id |-> participant_id, mediaType |-> mediaType,
     algorithm |-> algorithm, key_provider |-> key_provider,
     enabled |-> enabled0, key_index |-> 0, observer |-> nullptr]

Transformer_SetEnabled(t, enabled) == [t EXCEPT !.enabled = enabled]
Transformer_SetKeyIndex(t, index) == [t EXCEPT !.key_index = index]
Transformer_Register(t, observer) == [t EXCEPT !.observer = observer]
Transformer_UnRegister(t) == [t EXCEPT !.observer = nullptr]

---------------------------------------------------------------------------
(* Initial states *)

NoCryptor ==
    [participant_id_ |-> "", key_provider_ |-> NoOptions, sender_ |-> nullptr,
     receiver_ |-> nullptr, e2ee_transformer_ |-> nullptr,
     observer_ |-> nullptr]

NoValue == [set |-> FALSE, value |-> FALSE]
Idle == [pc |-> "idle", op |-> "", arg |-> FALSE, ret |-> FALSE, expect |-> NoValue]

NoHist ==
    [calls |-> 0, observers |-> 0, requested |-> "",
     everSetTrue |-> FALSE, lastEnabled |-> NoValue, lastKey |-> NoValue,
     unregistered |-> {}, replaced |-> {}, destroyed |-> {},
     sinceUnreg |-> FALSE, dtorSaw |-> nullptr, dtorCalls |-> 0,
     delivered |-> <<>>, received |-> <<>>]

DefaultOptions ==
    [shared_key |-> TRUE, ratchet_salt |-> <<255, 0>>,
     ratchet_window_size |-> 16, failure_tolerance |-> -1]

\* the sender and the receiver, by object number
TheSender == 1
TheReceiver == 2

InitRest ==
    /\ life = "unborn"
    /\ fc = NoCryptor
    /\ mutex_ = "free"
    /\ tr = NoTransformer
    /\ pipe = [sender |-> nullptr, receiver |-> nullptr, made |-> 0]
    /\ th = [t \in Threads |-> Idle]
    /\ queue = <<>>
    /\ hist = NoHist

\* the factories are exercised with every option value
InitFactory ==
    /\ opts \in KeyProviderOptionsInputs
    /\ kp = [built |-> FALSE, impl_ |-> NoOptions]
    /\ InitRest

\* the cryptor is exercised with a key provider already built
Init ==
    /\ opts = DefaultOptions
    /\ kp = [built |-> TRUE, impl_ |-> KeyProvider(opts)]
    /\ InitRest

---------------------------------------------------------------------------
(* Factories and constructors *)

\* lines 163-165
new_key_provider ==
    /\ ~kp.built
    /\ kp' = [built |-> TRUE, impl_ |-> KeyProvider(opts)]
    /\ UNCHANGED <<opts, life, fc, mutex_, tr, pipe, th, queue, hist>>

MediaTypeOf(kind) == IF kind = "audio" THEN "kAudioFrame" ELSE "kVideoFrame"

\* variant: the transformer is installed in the receiver's slot
FrameCryptorForSender_IntoReceiverSlot(participant_id, algorithm, key_provider, kind, enabled0) ==
    LET id == pipe.made + 1
        e2ee == NewTransformer(participant_id, MediaTypeOf(kind), algorithm,
                               key_provider, enabled0)
    IN /\ fc' = [participant_id_ |-> participant_id, key_provider_ |-> key_provider,
                 sender_ |-> TheSender, receiver_ |-> nullptr,
                 e2ee_transformer_ |-> id, observer_ |-> nullptr]
       /\ pipe' = [pipe EXCEPT !.receiver = id, !.made = id]
       /\ tr' = Transformer_SetEnabled(e2ee, FALSE)

\* variant: the closing SetEnabled(false) is missing
FrameCryptorForSender_NoDisable(participant_id, algorithm, key_provider, kind, enabled0) ==
    LET id == pipe.made + 1
        e2ee == NewTransformer(participant_id, MediaTypeOf(kind), algorithm,
                               key_provider, enabled0)
    IN /\ fc' = [participant_id_ |-> participant_id, key_provider_ |-> key_provider,
                 sender_ |-> TheSender, receiver_ |-> nullptr,
                 e2ee_transformer_ |-> id, observer_ |-> nullptr]
       /\ pipe' = [pipe EXCEPT !.sender = id, !.made = id]
       /\ tr' = e2ee

\* lines 65-85.  enabled0 is the value the library gives a new transformer.
FrameCryptorForSender(participant_id, algorithm, key_provider, kind, enabled0) ==
    LET id == pipe.made + 1
        e2ee == NewTransformer(participant_id, MediaTypeOf(kind), algorithm,
                               key_provider, enabled0)
    IN /\ fc' = [participant_id_ |-> participant_id, key_provider_ |-> key_provider,
                 sender_ |-> TheSender, receiver_ |-> nullptr,
                 e2ee_transformer_ |-> id, observer_ |-> nullptr]
       /\ pipe' = [pipe EXCEPT !.sender = id, !.made = id]
       /\ tr' = Transformer_SetEnabled(e2ee, FALSE)

\* lines 87-107
FrameCryptorForReceiver(participant_id, algorithm, key_provider, kind, enabled0) ==
    LET id == pipe.made + 1
        e2ee == NewTransformer(participant_id, MediaTypeOf(kind), algorithm,
                               key_provider, enabled0)
    IN /\ fc' = [participant_id_ |-> participant_id, key_provider_ |-> key_provider,
                 sender_ |-> nullptr, receiver_ |-> TheReceiver,
                 e2ee_transformer_ |-> id, observer_ |-> nullptr]
       /\ pipe' = [pipe EXCEPT !.receiver = id, !.made = id]
       /\ tr' = Transformer_SetEnabled(e2ee, FALSE)

\* lines 167-178
new_frame_cryptor_for_rtp_sender(participant_id, algorithm, kind, enabled0) ==
    /\ life = "unborn"
    /\ kp.built
    /\ FrameCryptorForSender(participant_id,
                             AlgorithmToFrameCryptorAlgorithm(algorithm),
                             kp.impl_, kind, enabled0)
    /\ life' = "alive"
    /\ hist' = [hist EXCEPT !.requested = algorithm]
    /\ UNCHANGED <<opts, kp, mutex_, th, queue>>

\* lines 180-191
new_frame_cryptor_for_rtp_receiver(participant_id, algorithm, kind, enabled0) ==
    /\ life = "unborn"
    /\ kp.built
    /\ FrameCryptorForReceiver(participant_id,
                               AlgorithmToFrameCryptorAlgorithm(algorithm),
                               kp.impl_, kind, enabled0)
    /\ life' = "alive"
    /\ hist' = [hist EXCEPT !.requested = algorithm]
    /\ UNCHANGED <<opts, kp, mutex_, th, queue>>

---------------------------------------------------------------------------
(* webrtc::MutexLock lock(&mutex_) *)

\* a method is entered by an idle thread of a live cryptor
MayCall(t) ==
    /\ life = "alive"
    /\ th[t].pc = "idle"
    /\ hist.calls < MaxCalls

\* variant: the lock is taken without waiting for its holder
MutexLock_NoWait(t) == mutex_' = t

MutexLock(t) ==
    /\ mutex_ = "free"
    /\ mutex_' = t

\* the lock's destructor, at the end of the method
MutexUnlock(t) == mutex_' = "free"

Enter(t, op, arg) ==
    /\ th' = [th EXCEPT ![t] = [Idle EXCEPT !.pc = "locked", !.op = op, !.arg = arg]]

\* the method returns: the lock is released, the caller has its result
Return(t) ==
    /\ th[t].pc = "forwarded"
    /\ MutexUnlock(t)
    /\ th' = [th EXCEPT ![t] = Idle]

---------------------------------------------------------------------------
(* Accessors *)

\* variant: the negated flag is forwarded
set_enabled_Negated(t, enabled) ==
    \/ /\ MayCall(t)
       /\ MutexLock(t)
       /\ Enter(t, "set_enabled", enabled)
       /\ hist' = [hist EXCEPT !.calls = @ + 1,
                               !.everSetTrue = @ \/ enabled]
       /\ UNCHANGED <<opts, kp, life, fc, tr, pipe, queue>>
    \/ /\ th[t].pc = "locked" /\ th[t].op = "set_enabled" /\ th[t].arg = enabled
       /\ tr' = Transformer_SetEnabled(tr, ~enabled)
       /\ th' = [th EXCEPT ![t].pc = "forwarded"]
       /\ hist' = [hist EXCEPT !.lastEnabled = [set |-> TRUE, value |-> enabled]]
       /\ UNCHANGED <<opts, kp, life, fc, mutex_, pipe, queue>>
    \/ /\ th[t].op = "set_enabled" /\ th[t].arg = enabled
       /\ Return(t)
       /\ UNCHANGED <<opts, kp, life, fc, tr, pipe, queue, hist>>

\* lines 143-146
set_enabled(t, enabled) ==
    \/ /\ MayCall(t)
       /\ MutexLock(t)
       /\ Enter(t, "set_enabled", enabled)
       /\ hist' = [hist EXCEPT !.calls = @ + 1,
                               !.everSetTrue = @ \/ enabled]
       /\ UNCHANGED <<opts, kp, life, fc, tr, pipe, queue>>
    \/ /\ th[t].pc = "locked" /\ th[t].op = "set_enabled" /\ th[t].arg = enabled
       /\ tr' = Transformer_SetEnabled(tr, enabled)
       /\ th' = [th EXCEPT ![t].pc = "forwarded"]
       /\ hist' = [hist EXCEPT !.lastEnabled = [set |-> TRUE, value |-> enabled]]
       /\ UNCHANGED <<opts, kp, life, fc, mutex_, pipe, queue>>
    \/ /\ th[t].op = "set_enabled" /\ th[t].arg = enabled
       /\ Return(t)
       /\ UNCHANGED <<opts, kp, life, fc, tr, pipe, queue, hist>>

\* lines 148-151
enabled(t) ==
    \/ /\ MayCall(t)
       /\ MutexLock(t)
       /\ Enter(t, "enabled", FALSE)
       /\ hist' = [hist EXCEPT !.calls = @ + 1]
       /\ UNCHANGED <<opts, kp, life, fc, tr, pipe, queue>>
    \/ /\ th[t].pc = "locked" /\ th[t].op = "enabled"
       /\ th' = [th EXCEPT ![t].pc = "forwarded",
                           ![t].ret = tr.enabled,
                           ![t].expect = hist.lastEnabled]
       /\ UNCHANGED <<opts, kp, life, fc, mutex_, tr, pipe, queue, hist>>
    \/ /\ th[t].op = "enabled"
       /\ Return(t)
       /\ UNCHANGED <<opts, kp, life, fc, tr, pipe, queue, hist>>

\* lines 153-156
set_key_index(t, index) ==
    \/ /\ MayCall(t)
       /\ MutexLock(t)
       /\ Enter(t, "set_key_index", index)
       /\ hist' = [hist EXCEPT !.calls = @ + 1]
       /\ UNCHANGED <<opts, kp, life, fc, tr, pipe, queue>>
    \/ /\ th[t].pc = "locked" /\ th[t].op = "set_key_index" /\ th[t].arg = index
       /\ tr' = Transformer_SetKeyIndex(tr, index)
       /\ th' = [th EXCEPT ![t].pc = "forwarded"]
       /\ hist' = [hist EXCEPT !.lastKey = [set |-> TRUE, value |-> index]]
       /\ UNCHANGED <<opts, kp, life, fc, mutex_, pipe, queue>>
    \/ /\ th[t].op = "set_key_index" /\ th[t].arg = index
       /\ Return(t)
       /\ UNCHANGED <<opts, kp, life, fc, tr, pipe, queue, hist>>

\* lines 158-161
key_index(t) ==
    \/ /\ MayCall(t)
       /\ MutexLock(t)
       /\ Enter(t, "key_index", FALSE)
       /\ hist' = [hist EXCEPT !.calls = @ + 1]
       /\ UNCHANGED <<opts, kp, life, fc, tr, pipe, queue>>
    \/ /\ th[t].pc = "locked" /\ th[t].op = "key_index"
       /\ th' = [th EXCEPT ![t].pc = "forwarded",
                           ![t].ret = tr.key_index,
                           ![t].expect = hist.lastKey]
       /\ UNCHANGED <<opts, kp, life, fc, mutex_, tr, pipe, queue, hist>>
    \/ /\ th[t].op = "key_index"
       /\ Return(t)
       /\ UNCHANGED <<opts, kp, life, fc, tr, pipe, queue, hist>>

---------------------------------------------------------------------------
(* Observer registration *)

\* lines 115-121
register_observer(t) ==
    \/ /\ MayCall(t)
       /\ MutexLock(t)
       /\ Enter(t, "register_observer", FALSE)
       /\ hist' = [hist EXCEPT !.calls = @ + 1, !.sinceUnreg = FALSE]
       /\ UNCHANGED <<opts, kp, life, fc, tr, pipe, queue>>
    \/ /\ th[t].pc = "locked" /\ th[t].op = "register_observer"
       \* observer_ = make_ref_counted<NativeFrameCryptorObserver>(...)
       /\ fc' = [fc EXCEPT !.observer_ = hist.observers + 1]
       /\ hist' = [hist EXCEPT !.observers = @ + 1]
       /\ th' = [th EXCEPT ![t].pc = "assigned"]
       /\ UNCHANGED <<opts, kp, life, mutex_, tr, pipe, queue>>
    \/ /\ th[t].pc = "assigned" /\ th[t].op = "register_observer"
       /\ tr' = Transformer_Register(tr, fc.observer_)
       /\ th' = [th EXCEPT ![t].pc = "forwarded", ![t].ret = tr.observer]
       /\ UNCHANGED <<opts, kp, life, fc, mutex_, pipe, queue, hist>>
    \/ /\ th[t].op = "register_observer"
       /\ Return(t)
       /\ hist' = [hist EXCEPT !.replaced = @ \cup ({th[t].ret} \ {nullptr})]
       /\ UNCHANGED <<opts, kp, life, fc, tr, pipe, queue>>

\* lines 124-126, after the lock is taken: run by unregister_observer and by
\* the destructor
UnregisterBody(t) ==
    \/ /\ th[t].pc = "locked"
       /\ fc' = [fc EXCEPT !.observer_ = nullptr]
       /\ th' = [th EXCEPT ![t].pc = "assigned"]
       /\ UNCHANGED <<opts, kp, life, mutex_, tr, pipe, queue, hist>>
    \/ /\ th[t].pc = "assigned"
       /\ tr' = Transformer_UnRegister(tr)
       /\ th' = [th EXCEPT ![t].pc = "forwarded", ![t].ret = tr.observer]
       /\ hist' = [hist EXCEPT !.dtorCalls = @ + (IF life = "destroying" THEN 1 ELSE 0)]
       /\ UNCHANGED <<opts, kp, life, fc, mutex_, pipe, queue>>

\* lines 123-127
unregister_observer(t) ==
    \/ /\ MayCall(t)
       /\ MutexLock(t)
       /\ Enter(t, "unregister_observer", FALSE)
       /\ hist' = [hist EXCEPT !.calls = @ + 1]
       /\ UNCHANGED <<opts, kp, life, fc, tr, pipe, queue>>
    \/ /\ th[t].op = "unregister_observer"
       /\ UnregisterBody(t)
    \/ /\ th[t].op = "unregister_observer"
       /\ Return(t)
       /\ hist' = [hist EXCEPT !.unregistered = @ \cup ({th[t].ret} \ {nullptr}),
                               !.sinceUnreg = TRUE]
       /\ UNCHANGED <<opts, kp, life, fc, tr, pipe, queue>>

\* lines 109-113.  The last reference is dropped by a thread while no thread
\* is inside a method.
Destructor(t) ==
    \/ /\ life = "alive"
       /\ \A u \in Threads : th[u].pc = "idle"
       \* if (observer_), read without the lock
       /\ hist' = [hist EXCEPT !.dtorSaw = fc.observer_]
       /\ IF fc.observer_ # nullptr
          THEN /\ life' = "destroying"
               /\ th' = [th EXCEPT ![t] = [Idle EXCEPT !.pc = "calling", !.op = "~FrameCryptor"]]
          ELSE /\ life' = "destroyed"
               /\ th' = th
       /\ UNCHANGED <<opts, kp, fc, mutex_, tr, pipe, queue>>
    \/ /\ th[t].pc = "calling" /\ th[t].op = "~FrameCryptor"
       /\ MutexLock(t)
       /\ th' = [th EXCEPT ![t].pc = "locked"]
       /\ UNCHANGED <<opts, kp, life, fc, tr, pipe, queue, hist>>
    \/ /\ th[t].op = "~FrameCryptor"
       /\ UnregisterBody(t)
    \/ /\ th[t].op = "~FrameCryptor"
       /\ Return(t)
       /\ life' = "destroyed"
       /\ hist' = [hist EXCEPT !.destroyed = @ \cup ({th[t].ret} \ {nullptr})]
       /\ UNCHANGED <<opts, kp, fc, tr, pipe, queue>>

---------------------------------------------------------------------------
(* State-change notifications *)

\* The transformer reports a state change: with an observer registered it
\* posts the callback, bound to that observer, to the signaling thread it was
\* constructed with (lines 80 and 102).
PostStateChange(state) ==
    /\ tr.exists
    /\ tr.observer # nullptr
    /\ Len(queue) + Len(hist.delivered) < MaxEmits
    /\ queue' = Append(queue, [observer |-> tr.observer,
                               participant_id |-> tr.participant_id,
                               state |-> state])
    /\ UNCHANGED <<opts, kp, life, fc, mutex_, tr, pipe, th, hist>>

\* The signaling thread runs the next posted callback: lines 136-141.
RunStateChange ==
    /\ queue # <<>>
    /\ LET task == Head(queue)
           calls == OnFrameCryptionStateChanged(task.observer, task.participant_id,
                                                task.state)
       IN hist' = [hist EXCEPT !.delivered = Append(@, task),
                               !.received = @ \o calls]
    /\ queue' = Tail(queue)
    /\ UNCHANGED <<opts, kp, life, fc, mutex_, tr, pipe, th>>

---------------------------------------------------------------------------
(* Specifications *)

Construct ==
    \/ \E p \in ParticipantIds, k \in TrackKinds, e0 \in BOOLEAN :
          new_frame_cryptor_for_rtp_sender(p, "AesCbc", k, e0)
    \/ \E p \in ParticipantIds, k \in TrackKinds, e0 \in BOOLEAN :
          new_frame_cryptor_for_rtp_receiver(p, "Sm4Gcm", k, e0)

\* every operation of the file, with the transformer's notifications
Next ==
    \/ Construct
    \/ \E t \in Threads, b \in BOOLEAN : set_enabled(t, b)
    \/ \E t \in Threads : enabled(t)
    \/ \E t \in Threads, i \in KeyIndexValues : set_key_index(t, i)
    \/ \E t \in Threads : key_index(t)
    \/ \E t \in Threads : register_observer(t)
    \/ \E t \in Threads : unregister_observer(t)
    \/ \E t \in Threads : Destructor(t)
    \/ \E s \in NativeStates : PostStateChange(s)
    \/ RunStateChange

Spec == Init /\ [][Next]_vars

\* the cryptor's methods and destructor, called from the application threads
NextCalls ==
    \/ Construct
    \/ \E t \in Threads, b \in BOOLEAN : set_enabled(t, b)
    \/ \E t \in Threads : enabled(t)
    \/ \E t \in Threads, i \in KeyIndexValues : set_key_index(t, i)
    \/ \E t \in Threads : key_index(t)
    \/ \E t \in Threads : register_observer(t)
    \/ \E t \in Threads : unregister_observer(t)
    \/ \E t \in Threads : Destructor(t)

SpecCalls == Init /\ [][NextCalls]_vars

\* observer registration and the notifications of the transformer
NextNotify ==
    \/ Construct
    \/ \E t \in Threads : register_observer(t)
    \/ \E t \in Threads : unregister_observer(t)
    \/ \E t \in Threads : Destructor(t)
    \/ \E s \in NativeStates : PostStateChange(s)
    \/ RunStateChange

SpecNotify == Init /\ [][NextNotify]_vars

NextFactory ==
    \/ new_key_provider
    \/ \E p \in ParticipantIds, a \in AlgorithmInputs, k \in TrackKinds, e0 \in BOOLEAN :
          new_frame_cryptor_for_rtp_sender(p, a, k, e0)
    \/ \E p \in ParticipantIds, a \in AlgorithmInputs, k \in TrackKinds, e0 \in BOOLEAN :
          new_frame_cryptor_for_rtp_receiver(p, a, k, e0)

SpecFactory == InitFactory /\ [][NextFactory]_vars

---------------------------------------------------------------------------
(* Properties *)

InMethod(t) == th[t].pc \in {"locked", "assigned", "forwarded"}

\* a new call reached an observer's on_frame_cryption_state_change
Notified(o) ==
    /\ Len(hist'.received) > Len(hist.received)
    /\ \E i \in (Len(hist.received) + 1)..Len(hist'.received) :
          hist'.received[i].observer = o

\* C1: every notification the transformer delivers is forwarded exactly once
\* to the observer it was delivered to, with the same participant id and the
\* same state value, in the order of delivery.
C1_ForwardedOnceInOrder ==
    /\ Len(hist.received) = Len(hist.delivered)
    /\ \A i \in 1..Len(hist.delivered) :
          LET d == hist.delivered[i]
              r == hist.received[i]
          IN /\ r.observer = d.observer
             /\ r.on_frame_cryption_state_change.participant_id = d.participant_id
             /\ r.on_frame_cryption_state_change.state.value = d.state.value

C1_Witness ==
    /\ Len(hist.received) = 2
    /\ hist.received[1].on_frame_cryption_state_change.state.value
         # hist.received[2].on_frame_cryption_state_change.state.value
    /\ hist.received[2].on_frame_cryption_state_change.state.value # 0
    /\ tr.observer = hist.received[2].observer

\* C2: until set_enabled(true) is first called, the transformer is disabled
\* and enabled() returns false, whatever else was called.
C2_StartsDisabled ==
    (life # "unborn" /\ ~hist.everSetTrue) =>
        /\ tr.enabled = FALSE
        /\ \A t \in Threads :
              (th[t].op = "enabled" /\ th[t].pc = "forwarded") => th[t].ret = FALSE

C2_Witness ==
    /\ ~hist.everSetTrue
    /\ hist.lastEnabled.set
    /\ fc.observer_ # nullptr
    /\ \E t \in Threads :
          th[t].op = "enabled" /\ th[t].pc = "forwarded" /\ th[t].ret = FALSE

\* C3: a getter returns the value passed to the latest call of its setter in
\* the order in which the calls took the mutex, unchanged.
C3_GetterReturnsLastSet ==
    /\ hist.lastEnabled.set => tr.enabled = hist.lastEnabled.value
    /\ hist.lastKey.set => tr.key_index = hist.lastKey.value
    /\ \A t \in Threads :
          (th[t].pc = "forwarded" /\ th[t].op \in {"enabled", "key_index"}
              /\ th[t].expect.set)
          => th[t].ret = th[t].expect.value

C3_Witness ==
    /\ hist.lastEnabled.set /\ hist.lastEnabled.value = TRUE
    /\ \E t \in Threads :
          /\ th[t].pc = "forwarded" /\ th[t].op = "key_index"
          /\ th[t].expect.set /\ th[t].ret = Int32Min

\* C4: after unregister_observer has returned, and until register_observer is
\* called again, the transformer has no observer, and an observer that was
\* unregistered is never notified again.
C4_NoCallbackAfterUnregister ==
    [][ /\ hist.sinceUnreg => tr.observer = nullptr
        /\ \A o \in hist.unregistered : ~Notified(o) ]_vars

\* the part of C4 about the transformer's observer alone
C4_TransformerHasNoObserver == hist.sinceUnreg => tr.observer = nullptr

\* C5: the transformer's algorithm is kAesCbc exactly when AesCbc was asked
\* for, and kAesGcm for every other input.
C5_AlgorithmTable ==
    tr.exists =>
        /\ tr.algorithm = (IF hist.requested = "AesCbc" THEN "kAesCbc" ELSE "kAesGcm")
        /\ (tr.algorithm = "kAesCbc" <=> hist.requested = "AesCbc")

C5_Witness ==
    /\ tr.exists
    /\ hist.requested = "AesCbc"
    /\ tr.algorithm = "kAesCbc"
    /\ fc.receiver_ # nullptr

\* C6: the native key provider's options equal the given options field for
\* field, the salt byte for byte.
C6_OptionsCopied ==
    kp.built =>
        /\ kp.impl_.shared_key = opts.shared_key
        /\ kp.impl_.ratchet_window_size = opts.ratchet_window_size
        /\ kp.impl_.failure_tolerance = opts.failure_tolerance
        /\ Len(kp.impl_.ratchet_salt) = Len(opts.ratchet_salt)
        /\ \A i \in 1..Len(opts.ratchet_salt) :
              kp.impl_.ratchet_salt[i] = opts.ratchet_salt[i]

C6_Witness ==
    /\ kp.built
    /\ Len(opts.ratchet_salt) = MaxSaltLen
    /\ opts.ratchet_salt[1] # opts.ratchet_salt[MaxSaltLen]
    /\ opts.ratchet_window_size = Int32Min

\* C7: one transformer is constructed, the cryptor keeps pointing at it, and
\* it sits in the sender's slot only (a sender's cryptor) or in the
\* receiver's slot only (a receiver's cryptor).
C7_OneTransformerOneSlot ==
    life # "unborn" =>
        /\ pipe.made = 1
        /\ fc.e2ee_transformer_ = pipe.made
        /\ tr.exists
        /\ (fc.sender_ # nullptr) # (fc.receiver_ # nullptr)
        /\ fc.sender_ # nullptr =>
              pipe.sender = fc.e2ee_transformer_ /\ pipe.receiver = nullptr
        /\ fc.receiver_ # nullptr =>
              pipe.receiver = fc.e2ee_transformer_ /\ pipe.sender = nullptr

C7_Witness ==
    /\ life = "destroyed"
    /\ fc.sender_ # nullptr
    /\ hist.calls = MaxCalls
    /\ hist.lastKey.set
    /\ hist.dtorCalls = 1

\* C8: a destroyed cryptor leaves its transformer without observer, its
\* destructor calls the transformer only to unregister an observer it found,
\* and no observer is notified once the destructor has completed.
C8_NoCallbackAfterDestruction ==
    /\ [](life = "destroyed" =>
            /\ tr.observer = nullptr
            /\ hist.dtorCalls = (IF hist.dtorSaw # nullptr THEN 1 ELSE 0))
    /\ [][life = "destroyed" => hist'.received = hist.received]_vars

\* the part of C8 about the destructor's own calls
C8_DestructorUnregisters ==
    life = "destroyed" =>
        /\ tr.observer = nullptr
        /\ fc.observer_ = nullptr
        /\ hist.dtorCalls = (IF hist.dtorSaw # nullptr THEN 1 ELSE 0)

\* a step in which thread t forwards a call to the transformer or reads or
\* writes observer_ inside one of the six methods
MethodAccess(t) ==
    /\ th[t].pc \in {"locked", "assigned"}
    /\ th'[t].pc # th[t].pc

\* the destructor's read of observer_
DestructorRead == life = "alive" /\ life' # "alive"

MutualExclusion == Cardinality({t \in Threads : InMethod(t)}) <= 1

\* C9 as stated: every forwarded call and every access to observer_, the
\* destructor's read included, is made with the mutex held.
C9_AllAccessUnderMutex ==
    /\ []MutualExclusion
    /\ [][ /\ \A t \in Threads : MethodAccess(t) => mutex_ = t
           /\ DestructorRead => mutex_ # "free" ]_vars

\* C9 amended: the calls forwarded by the six methods never overlap and are
\* made, as the accesses to observer_ in register_observer and
\* unregister_observer, with the mutex held by the calling thread; the
\* destructor reads observer_ before taking the mutex.
C9_MethodsUnderMutex ==
    /\ []MutualExclusion
    /\ [][ /\ \A t \in Threads : MethodAccess(t) => mutex_ = t
           /\ DestructorRead => mutex_ = "free" ]_vars

C9_Witness ==
    /\ life = "destroying"
    /\ hist.calls = MaxCalls
    /\ \E t \in Threads : th[t].pc = "forwarded" /\ mutex_ = t

RegistrationInProgress ==
    \E t \in Threads :
        th[t].op \in {"register_observer", "unregister_observer", "~FrameCryptor"}

\* C10: outside register_observer and unregister_observer the cryptor's
\* observer_ and the transformer's observer are the same (both null or the
\* same object), and an observer replaced by a later register_observer is
\* never notified again.
C10_OneObserverNoLateCallback ==
    /\ [](~RegistrationInProgress =>
            /\ (fc.observer_ # nullptr <=> tr.observer # nullptr)
            /\ fc.observer_ = tr.observer)
    /\ [][\A o \in hist.replaced : ~Notified(o)]_vars

\* the part of C10 about the two observer references
C10_ObserverFieldsAgree ==
    ~RegistrationInProgress =>
        /\ (fc.observer_ # nullptr <=> tr.observer # nullptr)
        /\ fc.observer_ = tr.observer

=============================================================================
